---- MODULE Spec2Model ----
(***************************************************************************)
(* Model of src/src/03_eigenvalue_solver_demo.py: assembly of the 1D       *)
(* diffusion operator, Dirichlet row overwrite, the ARPACK wrapper and the *)
(* filtering / classification loop of the main block.                      *)
(*                                                                         *)
(* Real numbers are modelled exactly: matrix entries are rationals         *)
(* <<num, den>> in lowest terms with den > 0; eigenvalue parts are         *)
(* integers in units of 1e-5, so 1.0 is One and 1e-4 is Tol.               *)
(***************************************************************************)
EXTENDS Integers, Sequences, FiniteSets, TLC

VARIABLES pc, N, L, nu, k, A, eigenvalues, isNone, i, report, raised,
          solveFailed, enforcedOnce

vars == <<pc, N, L, nu, k, A, eigenvalues, isNone, i, report, raised,
          solveFailed, enforcedOnce>>

----------------------------------------------------------------------------
(* Bounds of the model *)

MaxN == 4

MaxK == 2

DirMaxN == 3

(* Program constants *)

\* 1.0, the eigenvalue of the overwritten boundary rows, in units of 1e-5
One == 100000

\* 1e-4, the filter tolerance, in units of 1e-5
Tol == 10

\* k passed by the main block
MainK == 4

\* default k of run_arnoldi_solver
DefaultK == 5

NSet == 0..MaxN

LSet == {-1, 0, 1, 2}

NuSet == {-1, 0, 1}

KSet == (0..MaxK) \cup {MainK, DefaultK}

ReVals == {-(One \div 2), 0, One - Tol - 1, One - Tol, One, One + Tol,
           One + Tol + 1}

ImVals == {0, One \div 2}

EigVals == ReVals \X ImVals

----------------------------------------------------------------------------
(* Exact rational arithmetic *)

Abs(x) == IF x < 0 THEN -x ELSE x

RECURSIVE GCD(_, _)
GCD(a, b) == IF b = 0 THEN a ELSE GCD(b, a % b)

Norm(n, d) ==
    LET s == IF d < 0 THEN -1 ELSE 1
        g == GCD(Abs(n), Abs(d))
    IN  <<(s * n) \div g, (s * d) \div g>>

Rat(n) == <<n, 1>>

RatMul(x, y) == Norm(x[1] * y[1], x[2] * y[2])

RatDiv(x, y) == Norm(x[1] * y[2], x[2] * y[1])

RatAdd(x, y) == Norm(x[1] * y[2] + y[1] * x[2], x[2] * y[2])

RECURSIVE RowSumUpTo(_, _)
RowSumUpTo(row, j) ==
    IF j < 0 THEN Rat(0) ELSE RatAdd(RowSumUpTo(row, j - 1), row[j])

----------------------------------------------------------------------------
(* build_1d_operator *)

\* dx = L / (N - 1)
dx(n, len) == RatDiv(Rat(len), Rat(n - 1))

\* nu / dx**2
StencilScale(n, len, visc) ==
    RatDiv(Rat(visc), RatMul(dx(n, len), dx(n, len)))

\* diags([main_diag, off_diag, off_diag], [0, -1, 1], shape=(N, N))
Diags(n) ==
    [r \in 0..(n - 1) |->
        [c \in 0..(n - 1) |->
            IF c = r THEN Rat(-2)
            ELSE IF c = r - 1 \/ c = r + 1 THEN Rat(1)
            ELSE Rat(0)]]

\* A = A * (nu / dx**2)
ScaleMatrix(M, n, s) ==
    [r \in 0..(n - 1) |-> [c \in 0..(n - 1) |-> RatMul(M[r][c], s)]]

AssembleInterior(n, len, visc) ==
    ScaleMatrix(Diags(n), n, StencilScale(n, len, visc))

\* The exception the assembly raises, "none" when it completes.
\*   N = 1          : L / (N - 1) divides by zero          (line 25)
\*   N <= 0         : np.ones(N - 1) has a negative length (line 30)
\*   L = 0, N >= 2  : nu / dx**2 divides by zero           (line 37)
AssemblyError(n, len) ==
    IF n = 1 THEN "ZeroDivisionError"
    ELSE IF n <= 0 THEN "ValueError"
    ELSE IF len = 0 THEN "ZeroDivisionError"
    ELSE "none"

\* A[r, :] = v
SetRow(M, n, r, v) == [M EXCEPT ![r] = [c \in 0..(n - 1) |-> v]]

\* A[r, c] = v
SetEntry(M, r, c, v) == [M EXCEPT ![r][c] = v]

\* A[0, 0] = 1.0 and A[-1, -1] = 1.0 without clearing the rows first
EnforceDirichletNoClear(M, n) ==
    SetEntry(SetEntry(M, 0, 0, Rat(1)), n - 1, n - 1, Rat(1))

\* A[:, 0] = 0.0 and A[:, -1] = 0.0: the columns are cleared as well
EnforceDirichletColumns(M, n) ==
    LET rows == SetEntry(SetRow(SetEntry(SetRow(M, n, 0, Rat(0)),
                                         0, 0, Rat(1)),
                                n, n - 1, Rat(0)),
                         n - 1, n - 1, Rat(1))
    IN  [r \in 0..(n - 1) |->
            [c \in 0..(n - 1) |->
                IF (c = 0 \/ c = n - 1) /\ r # c THEN Rat(0)
                ELSE rows[r][c]]]

\* A[0, 0] += 1.0 and A[-1, -1] += 1.0 on the uncleared rows
EnforceDirichletAdd(M, n) ==
    LET left == SetEntry(M, 0, 0, RatAdd(M[0][0], Rat(1)))
    IN  SetEntry(left, n - 1, n - 1, RatAdd(left[n - 1][n - 1], Rat(1)))

\* Left wall then right wall: row zeroed, diagonal set to 1
EnforceDirichlet(M, n) ==
    LET left == SetEntry(SetRow(M, n, 0, Rat(0)), 0, 0, Rat(1))
    IN  SetEntry(SetRow(left, n, n - 1, Rat(0)), n - 1, n - 1, Rat(1))

build_1d_operator(n, len, visc) ==
    EnforceDirichlet(AssembleInterior(n, len, visc), n)

----------------------------------------------------------------------------
(* run_arnoldi_solver *)

\* eigs(A, k=k, which='LR') on a sparse N x N matrix rejects k <= 0 and
\* k >= N - 1 before iterating.
EigsArgsValid(n, kk) == kk > 0 /\ kk < n - 1

\* The arrays eigs can return: k complex values, in the solver's order.
EigsResults(kk) == [1..kk -> EigVals]

----------------------------------------------------------------------------
(* main block: filter and classify *)

\* abs(ev.real - 1.0) >= 1e-4
IsPhysicalGe(ev) == Abs(ev[1] - One) >= Tol

\* abs(ev.real - 1.0) > 1e-4 or ev.imag != 0
IsPhysicalImag(ev) == Abs(ev[1] - One) > Tol \/ ev[2] # 0

\* abs(ev.real - 1.0) > 1e-4
IsPhysical(ev) == Abs(ev[1] - One) > Tol

\* "STABLE" if sigma_r <= 0 else "UNSTABLE"
ClassifyLe(sigma_r) == IF sigma_r <= 0 THEN "STABLE" ELSE "UNSTABLE"

\* "STABLE" if sigma_r < 0 else "UNSTABLE"
Classify(sigma_r) == IF sigma_r < 0 THEN "STABLE" ELSE "UNSTABLE"

Mode(idx, ev) ==
    [index |-> idx, sigma_r |-> ev[1], freq |-> ev[2],
     status |-> Classify(ev[1])]

\* the new line is put before the lines already printed
EmitFront(rep, idx, ev) == <<Mode(idx, ev)>> \o rep

\* print(f" Mode {i}: ...")
Emit(rep, idx, ev) == Append(rep, Mode(idx, ev))

----------------------------------------------------------------------------
(* State machine of the pipeline *)

NoMatrix == <<>>

Init ==
    /\ pc = "start"
    /\ N \in NSet
    /\ L \in LSet
    /\ nu \in NuSet
    /\ k \in KSet
    /\ A = NoMatrix
    /\ eigenvalues = <<>>
    /\ isNone = FALSE
    /\ i = 0
    /\ report = <<>>
    /\ raised = "none"
    /\ solveFailed = FALSE
    /\ enforcedOnce = NoMatrix

\* lines 25-37 complete
Assemble ==
    /\ pc = "start"
    /\ AssemblyError(N, L) = "none"
    /\ A' = AssembleInterior(N, L, nu)
    /\ pc' = "assembled"
    /\ UNCHANGED <<N, L, nu, k, eigenvalues, isNone, i, report, raised,
                   solveFailed, enforcedOnce>>

\* lines 25-37 raise; nothing catches the exception
AssembleRaise ==
    /\ pc = "start"
    /\ AssemblyError(N, L) # "none"
    /\ raised' = AssemblyError(N, L)
    /\ pc' = "crashed"
    /\ UNCHANGED <<N, L, nu, k, A, eigenvalues, isNone, i, report,
                   solveFailed, enforcedOnce>>

\* lines 43-51
Enforce ==
    /\ pc = "assembled"
    /\ A' = EnforceDirichlet(A, N)
    /\ pc' = "enforced"
    /\ UNCHANGED <<N, L, nu, k, eigenvalues, isNone, i, report, raised,
                   solveFailed, enforcedOnce>>

\* lines 60-62: eigs returns, vals are handed back
SolveOk ==
    /\ pc = "enforced"
    /\ EigsArgsValid(N, k)
    /\ \E vals \in EigsResults(k) : eigenvalues' = vals
    /\ isNone' = FALSE
    /\ pc' = "solved"
    /\ UNCHANGED <<N, L, nu, k, A, i, report, raised, solveFailed,
                   enforcedOnce>>

\* lines 63-65: eigs raises (bad k, or no convergence); the wrapper prints
\* and returns None
SolveFail ==
    /\ pc = "enforced"
    /\ isNone' = TRUE
    /\ solveFailed' = TRUE
    /\ pc' = "solved"
    /\ UNCHANGED <<N, L, nu, k, A, eigenvalues, i, report, raised,
                   enforcedOnce>>

\* lines 84-90: one iteration of the loop
ReportStep ==
    /\ pc = "solved"
    /\ ~isNone
    /\ i < Len(eigenvalues)
    /\ report' = IF IsPhysical(eigenvalues[i + 1])
                 THEN Emit(report, i, eigenvalues[i + 1])
                 ELSE report
    /\ i' = i + 1
    /\ UNCHANGED <<pc, N, L, nu, k, A, eigenvalues, isNone, raised,
                   solveFailed, enforcedOnce>>

\* line 82 false, or the loop is exhausted
Finish ==
    /\ pc = "solved"
    /\ isNone \/ i = Len(eigenvalues)
    /\ pc' = "done"
    /\ UNCHANGED <<N, L, nu, k, A, eigenvalues, isNone, i, report, raised,
                   solveFailed, enforcedOnce>>

Next ==
    \/ Assemble
    \/ AssembleRaise
    \/ Enforce
    \/ SolveOk
    \/ SolveFail
    \/ ReportStep
    \/ Finish

Spec == Init /\ [][Next]_vars

----------------------------------------------------------------------------
(* Dirichlet enforcement applied to arbitrary operators, twice *)

PriorVals == {Rat(0), Rat(-2)}

InitDirichlet ==
    /\ pc = "raw"
    /\ N \in 2..DirMaxN
    /\ A \in [0..(N - 1) -> [0..(N - 1) -> PriorVals]]
    /\ L = 1
    /\ nu = 1
    /\ k = 1
    /\ eigenvalues = <<>>
    /\ isNone = FALSE
    /\ i = 0
    /\ report = <<>>
    /\ raised = "none"
    /\ solveFailed = FALSE
    /\ enforcedOnce = NoMatrix

\* lines 43-49 on the prior content
EnforceFirst ==
    /\ pc = "raw"
    /\ A' = EnforceDirichlet(A, N)
    /\ enforcedOnce' = A'
    /\ pc' = "once"
    /\ UNCHANGED <<N, L, nu, k, eigenvalues, isNone, i, report, raised,
                   solveFailed>>

\* lines 43-49 again, on the enforced operator
EnforceSecond ==
    /\ pc = "once"
    /\ A' = EnforceDirichlet(A, N)
    /\ pc' = "twice"
    /\ UNCHANGED <<N, L, nu, k, eigenvalues, isNone, i, report, raised,
                   solveFailed, enforcedOnce>>

NextDirichlet ==
    \/ EnforceFirst
    \/ EnforceSecond

SpecDirichlet == InitDirichlet /\ [][NextDirichlet]_vars

----------------------------------------------------------------------------
(* Properties *)

AfterEnforce == {"enforced", "solved", "done"}

ValidGrid == N >= 3 /\ L > 0

UnitRow(n, d) == [c \in 0..(n - 1) |-> IF c = d THEN <<1, 1>> ELSE <<0, 1>>]

\* x = m * nu / dx^2 with dx = L / (N - 1), cross-multiplied
IsStencil(x, m) == x[1] * L * L = m * nu * (N - 1) * (N - 1) * x[2]

ReportedIndices == {report[j].index : j \in 1..Len(report)}

\* real part within 1e-4 of 1.0, the distance 1e-4 included
NearOne(ev) == Abs(ev[1] - One) <= Tol

\* imaginary part approximately zero
ImApproxZero(ev) == Abs(ev[2]) <= Tol

\* C1: for N >= 3 and L > 0 and every nu, the operator handed to the
\* eigen-solver has row 0 equal to [1, 0, ..., 0] and row N-1 equal to
\* [0, ..., 0, 1].
C1_BoundaryRowsUnit ==
    (pc \in AfterEnforce /\ ValidGrid) =>
        /\ A[0] = UnitRow(N, 0)
        /\ A[N - 1] = UnitRow(N, N - 1)

C1_Witness ==
    /\ pc = "solved"
    /\ ValidGrid
    /\ nu < 0
    /\ A[1][0] # <<0, 1>>

\* C2: a failed eigen-solve reaches the caller as a ConvergenceError and is
\* never replaced by an empty or substitute result.
C2_FailureSurfaced ==
    solveFailed => (raised = "ConvergenceError" /\ ~isNone)

\* C3: operator assembly fails with InvalidGridError whenever N < 3 or
\* L <= 0; no operator is built and the solver is never started.
C3_InvalidGridRejected ==
    ((N < 3 \/ L <= 0) /\ pc # "start") =>
        (pc = "crashed" /\ raised = "InvalidGridError")

\* C4: no reported mode has a real part within 1e-4 of 1.0, the distance
\* of exactly 1e-4 included.
C4_NoArtifactReported ==
    \A j \in 1..Len(report) : Abs(report[j].sigma_r - One) > Tol

C4_Witness ==
    /\ pc = "done"
    /\ Len(report) = 1
    /\ \E j \in 1..Len(eigenvalues) : Abs(eigenvalues[j][1] - One) = Tol

\* C5: the label of every reported mode is STABLE when the growth rate is
\* negative and UNSTABLE otherwise (zero included), whatever the imaginary
\* part; the modes that carry a label are exactly the processed modes that
\* are not artifacts.
C5_LabelBySign ==
    /\ \A j \in 1..Len(report) :
          /\ report[j].sigma_r < 0 => report[j].status = "STABLE"
          /\ report[j].sigma_r >= 0 => report[j].status = "UNSTABLE"
    /\ Len(report) = Cardinality({j \in 1..i : ~NearOne(eigenvalues[j])})

C5_Witness ==
    /\ pc = "done"
    /\ Len(eigenvalues) = 2
    /\ NearOne(eigenvalues[1])
    /\ Len(report) = 1
    /\ report[1].sigma_r = 0
    /\ report[1].freq # 0
    /\ report[1].status = "UNSTABLE"

\* C6: for N >= 3 and L > 0 and every nu, every interior row of the
\* operator, before and after Dirichlet enforcement, holds exactly c, -2c, c
\* with c = nu/dx^2 at columns i-1, i, i+1, zero elsewhere, and sums to zero.
C6_InteriorRows ==
    (pc \in (AfterEnforce \cup {"assembled"}) /\ ValidGrid) =>
        \A r \in 1..(N - 2) :
            /\ RowSumUpTo(A[r], N - 1) = <<0, 1>>
            /\ \A c \in 0..(N - 1) :
                  IF c = r THEN IsStencil(A[r][c], -2)
                  ELSE IF c = r - 1 \/ c = r + 1 THEN IsStencil(A[r][c], 1)
                  ELSE A[r][c] = <<0, 1>>

C6_Witness ==
    /\ pc = "enforced"
    /\ N >= 4
    /\ L = 2
    /\ nu # 0
    /\ A[1][0] = <<nu * (N - 1) * (N - 1), 4>>
    /\ A[N - 2][N - 1] # <<0, 1>>

\* C7: applying the Dirichlet overwrite to an already-enforced operator
\* changes no entry, for every N >= 2 and every prior content.
C7_Idempotent ==
    pc = "twice" => A = enforcedOnce

C7_Witness ==
    /\ pc = "twice"
    /\ N >= 3
    /\ A[1][0] = <<-2, 1>>
    /\ A[0] = UnitRow(N, 0)

\* C8: the reported modes are in the solver's order, without duplicates, and
\* each carries the position it had in the solver's output.
C8_OrderPreserved ==
    /\ \A a, b \in 1..Len(report) :
          a < b => report[a].index < report[b].index
    /\ \A j \in 1..Len(report) :
          /\ report[j].index \in 0..(i - 1)
          /\ eigenvalues[report[j].index + 1]
                = <<report[j].sigma_r, report[j].freq>>

C8_Witness ==
    /\ pc = "done"
    /\ Len(report) = 2
    /\ report[1].sigma_r < report[2].sigma_r
    /\ report[2].index = 1

\* C9: with N = 3, L = 1.0, nu = 1.0 the pipeline completes without a solver
\* failure and reports at most one valid mode, for every k.
C9_SmallestGridCompletes ==
    (N = 3 /\ L = 1 /\ nu = 1 /\ pc = "done") =>
        (~solveFailed /\ raised = "none" /\ Len(report) <= 1)

\* C10 as stated: a processed eigenvalue is excluded exactly when its real
\* part is within 1e-4 of 1.0 and its imaginary part is approximately zero.
C10_ExcludedIffRealAndImag ==
    \A j \in 1..i :
        ((j - 1) \notin ReportedIndices)
            <=> (NearOne(eigenvalues[j]) /\ ImApproxZero(eigenvalues[j]))

\* C10 amended: a processed eigenvalue is excluded exactly when its real
\* part is within 1e-4 of 1.0, whatever its imaginary part.
C10_ExcludedIffReal ==
    \A j \in 1..i :
        ((j - 1) \notin ReportedIndices) <=> NearOne(eigenvalues[j])

C10_Witness ==
    /\ pc = "done"
    /\ Len(eigenvalues) = 2
    /\ eigenvalues[1] = <<One, One \div 2>>
    /\ ~NearOne(eigenvalues[2])
    /\ ReportedIndices = {1}

====
